---- MODULE Spec2Model ----
(***************************************************************************)
(* Tutorial_7/SciPy1.ipynb as a state machine.                             *)
(*                                                                         *)
(* The program is a Jupyter notebook: ten code cells that share one kernel *)
(* namespace.  Running a cell is one action.  A cell executes its          *)
(* statements in order and stops at the first statement that raises; the   *)
(* bindings made by the statements before it stay in the namespace.  The   *)
(* kernel lets the cells be run in any order and any number of times, so   *)
(* every cell action is enabled in every state; the variable `ordered`     *)
(* tells whether the cells run so far are exactly cells 1..runs, once      *)
(* each, top to bottom.                                                    *)
(*                                                                         *)
(* Numbers are kept exact: the parameters 1.2, 1.5, 2.3 and the noise      *)
(* scales 0.2 and 1 are held in tenths, the grid of xdata in hundredths.   *)
(* np.random.randn is unseeded: each call is a nondeterministic draw,      *)
(* identified by a number in 1..NumDraws.  scipy.optimize.curve_fit is an  *)
(* imported library whose code is not part of the notebook: a fit result   *)
(* is represented by what the call site fixes about it, namely the model   *)
(* that was passed, the data it was passed, and the number of fitted       *)
(* parameters (the model's arguments after the first).                     *)
(***************************************************************************)
EXTENDS Integers, Sequences, FiniteSets

VARIABLES ns, runs, ordered, err, lastUse

vars == <<ns, runs, ordered, err, lastUse>>

\* ---------------------------------------------------------------- bounds
\* Cell executions in one kernel session.
MaxRuns == 10
\* Distinct outcomes of one np.random.randn call.
NumDraws == 2

\* ---------------------------------------------------------------- cells
NumCells == 10

Names == {"np", "cf", "plt", "lin_func", "quad_func",
          "xdata", "ydata", "p_opt", "p_cov"}

\* ---------------------------------------------------------------- values
Unbound == [kind |-> "unbound"]

Module(n) == [kind |-> "module", name |-> n]

\* A function object: its name and the number of its positional arguments.
\* def lin_func(x,m,c)
LinFuncObj == [kind |-> "function", name |-> "lin_func", nargs |-> 3]

\* def quad_func(x,a,b,c)
QuadFuncObj == [kind |-> "function", name |-> "quad_func", nargs |-> 4]

\* "the first argument as observation points/inputs and consequent
\*  arguments as the parameters of your model"
NumParams(f) == f.nargs - 1

\* np.arange(0,4,0.01): start, stop and step in hundredths.
XStart == 0

XStop == 400

XStep == 1

Arange == [kind |-> "xarray", len |-> (XStop - XStart + XStep - 1) \div XStep]

\* Parameters the data are generated from, in tenths.
LinTruth == <<12, 15>>

QuadTruth == <<15, 23, 12>>

\* Standard deviation of the added noise, in tenths.
LinNoise == 2

QuadNoise == 10

\* The list p_opt is compared with in the last cell, in tenths.
CompareTruth == <<15, 23, 12>>

\* f(xdata, *truth) + noise * np.random.randn(len(xdata))
Noisy(f, truth, noise, draw, xs) ==
    [kind |-> "yarray", len |-> xs.len, gen |-> f.name, truth |-> truth,
     noise |-> noise, draw |-> draw]

\* Calling f(x, *args): a TypeError unless x and the args fill f's arguments.
CallOK(f, nargsGiven) == f.nargs = nargsGiven

\* cf(f, xdata, ydata): parameters of f fitted to (xdata, ydata).
FitOpt(f, xs, ys) ==
    [kind |-> "popt", model |-> f.name, len |-> NumParams(f), data |-> ys]

FitCov(f, xs, ys) ==
    [kind |-> "pcov", model |-> f.name, rows |-> NumParams(f),
     cols |-> NumParams(f)]

\* ---------------------------------------------------------------- cell results
NoUse == [kind |-> "none"]

\* p_opt unpacked into model f by cell c, with the ydata bound at that point.
Unpack(c, f, po, ys) ==
    [kind |-> "unpack", cell |-> c, model |-> f.name, nparams |-> NumParams(f),
     popt |-> po, ydata |-> ys]

\* p_opt compared with a list of true parameters by cell c.
Compare(c, truth, po, ys) ==
    [kind |-> "compare", cell |-> c, truth |-> truth, popt |-> po, ydata |-> ys]

Bound(env, n) == env[n].kind # "unbound"

AllBound(env, S) == \A n \in S : Bound(env, n)

Ok(env, use) == [ns |-> env, err |-> "none", use |-> use]

Raise(env, e, use) == [ns |-> env, err |-> e, use |-> use]

\* ---------------------------------------------------------------- the cells
\* %matplotlib inline
Cell1(env) == Ok(env, NoUse)

\* import numpy as np / from scipy.optimize import curve_fit as cf /
\* import matplotlib.pyplot as plt
Cell2(env) ==
    Ok([env EXCEPT !["np"] = Module("numpy"),
                   !["cf"] = Module("curve_fit"),
                   !["plt"] = Module("pyplot")], NoUse)

\* def lin_func(x,m,c)
Cell3(env) == Ok([env EXCEPT !["lin_func"] = LinFuncObj], NoUse)

\* xdata = np.arange(0,4,0.01)
\* ydata = lin_func(xdata,1.2,1.5) + 0.2 * np.random.randn(len(xdata))
\* plt.scatter(xdata,ydata,s=1)
Cell4(env, d) ==
    IF ~Bound(env, "np") THEN Raise(env, "NameError", NoUse)
    ELSE LET e1 == [env EXCEPT !["xdata"] = Arange] IN
      IF ~Bound(e1, "lin_func") THEN Raise(e1, "NameError", NoUse)
      ELSE LET e2 == [e1 EXCEPT !["ydata"] =
                        Noisy(e1["lin_func"], LinTruth, LinNoise, d, e1["xdata"])] IN
        IF ~Bound(e2, "plt") THEN Raise(e2, "NameError", NoUse)
        ELSE Ok(e2, NoUse)

\* p_opt, p_cov = cf(lin_func,xdata,ydata)
Cell5(env) ==
    IF ~AllBound(env, {"cf", "lin_func", "xdata", "ydata"})
    THEN Raise(env, "NameError", NoUse)
    ELSE Ok([env EXCEPT
               !["p_opt"] = FitOpt(env["lin_func"], env["xdata"], env["ydata"]),
               !["p_cov"] = FitCov(env["lin_func"], env["xdata"], env["ydata"])],
            NoUse)

\* plt.plot(xdata,lin_func(xdata,*p_opt),label='Best Fit',color='g')
\* plt.scatter(xdata,ydata,label='OG_Data',s=1,color='darkorange')
\* plt.xlabel('x') ... plt.legend()
Cell6(env) ==
    IF ~AllBound(env, {"plt", "xdata", "lin_func", "p_opt"})
    THEN Raise(env, "NameError", NoUse)
    ELSE LET use == Unpack(6, env["lin_func"], env["p_opt"], env["ydata"]) IN
      IF ~CallOK(env["lin_func"], 1 + env["p_opt"].len)
      THEN Raise(env, "TypeError", use)
      ELSE IF ~Bound(env, "ydata") THEN Raise(env, "NameError", use)
      ELSE Ok(env, use)

\* def quad_func(x,a,b,c)
Cell7(env) == Ok([env EXCEPT !["quad_func"] = QuadFuncObj], NoUse)

\* ydata = quad_func(xdata,1.5,2.3,1.2) + np.random.randn(len(xdata))
\* plt.scatter(xdata,ydata,s=1)
Cell8(env, d) ==
    IF ~AllBound(env, {"quad_func", "xdata", "np"})
    THEN Raise(env, "NameError", NoUse)
    ELSE LET e1 == [env EXCEPT !["ydata"] =
                      Noisy(env["quad_func"], QuadTruth, QuadNoise, d, env["xdata"])] IN
      IF ~Bound(e1, "plt") THEN Raise(e1, "NameError", NoUse)
      ELSE Ok(e1, NoUse)

\* Cell 9 with the fit call left as in cell 5: cf(lin_func,xdata,ydata).
Cell9FitsLin(env) ==
    IF ~AllBound(env, {"cf", "lin_func", "quad_func", "xdata", "ydata"})
    THEN Raise(env, "NameError", NoUse)
    ELSE LET e1 == [env EXCEPT
                      !["p_opt"] = FitOpt(env["lin_func"], env["xdata"], env["ydata"]),
                      !["p_cov"] = FitCov(env["lin_func"], env["xdata"], env["ydata"])] IN
      IF ~Bound(e1, "plt") THEN Raise(e1, "NameError", NoUse)
      ELSE LET use == Unpack(9, e1["quad_func"], e1["p_opt"], e1["ydata"]) IN
        IF ~CallOK(e1["quad_func"], 1 + e1["p_opt"].len)
        THEN Raise(e1, "TypeError", use)
        ELSE Ok(e1, use)

\* p_opt, p_cov = cf(quad_func,xdata,ydata)
\* plt.plot(xdata,quad_func(xdata,*p_opt),label='Best Fit',color='g')
\* plt.scatter(xdata,ydata,label='OG_Data',s=1,color='darkorange') ...
Cell9(env) ==
    IF ~AllBound(env, {"cf", "quad_func", "xdata", "ydata"})
    THEN Raise(env, "NameError", NoUse)
    ELSE LET e1 == [env EXCEPT
                      !["p_opt"] = FitOpt(env["quad_func"], env["xdata"], env["ydata"]),
                      !["p_cov"] = FitCov(env["quad_func"], env["xdata"], env["ydata"])] IN
      IF ~Bound(e1, "plt") THEN Raise(e1, "NameError", NoUse)
      ELSE LET use == Unpack(9, e1["quad_func"], e1["p_opt"], e1["ydata"]) IN
        IF ~CallOK(e1["quad_func"], 1 + e1["p_opt"].len)
        THEN Raise(e1, "TypeError", use)
        ELSE Ok(e1, use)

\* print('a_err={}, b_err={}, c_err={}'.format(*(abs(p_opt-[1.5,2.3,1.2]))))
Cell10(env) ==
    IF ~Bound(env, "p_opt") THEN Raise(env, "NameError", NoUse)
    ELSE LET use == Compare(10, CompareTruth, env["p_opt"], env["ydata"]) IN
      IF env["p_opt"].len # Len(CompareTruth)
      THEN Raise(env, "ValueError", use)
      ELSE Ok(env, use)

\* ---------------------------------------------------------------- the kernel
Init ==
    /\ ns = [n \in Names |-> Unbound]
    /\ runs = 0
    /\ ordered = TRUE
    /\ err = "none"
    /\ lastUse = NoUse

\* Cell c has run with result r.
Finish(c, r) ==
    /\ runs < MaxRuns
    /\ ns' = r.ns
    /\ err' = r.err
    /\ lastUse' = IF r.use.kind = "none" THEN lastUse ELSE r.use
    /\ ordered' = (ordered /\ c = runs + 1)
    /\ runs' = runs + 1

RunCell1 == Finish(1, Cell1(ns))

RunCell2 == Finish(2, Cell2(ns))

RunCell3 == Finish(3, Cell3(ns))

RunCell4 == \E d \in 1..NumDraws : Finish(4, Cell4(ns, d))

RunCell5 == Finish(5, Cell5(ns))

RunCell6 == Finish(6, Cell6(ns))

RunCell7 == Finish(7, Cell7(ns))

RunCell8 == \E d \in 1..NumDraws : Finish(8, Cell8(ns, d))

RunCell9 == Finish(9, Cell9(ns))

RunCell10 == Finish(10, Cell10(ns))

Next ==
    \/ RunCell1
    \/ RunCell2
    \/ RunCell3
    \/ RunCell4
    \/ RunCell5
    \/ RunCell6
    \/ RunCell7
    \/ RunCell8
    \/ RunCell9
    \/ RunCell10

Spec == Init /\ [][Next]_vars

\* ---------------------------------------------------------------- properties
\* The fit result po was fitted with a model named m on the array ys, and ys
\* was generated from that same model.
FitOfOn(po, m, ys) ==
    /\ po.kind = "popt"
    /\ ys.kind = "yarray"
    /\ po.model = m
    /\ po.data = ys
    /\ ys.gen = m

\* C10: when the code cells are run once each, top to bottom, no cell raises
\* (every name a cell reads was bound by an earlier cell), and in the state
\* right after a cell that unpacks p_opt into a model (lin_func in cell 6,
\* quad_func in cell 9) or compares it with the true parameters
\* [1.5, 2.3, 1.2] (cell 10), that p_opt is the namespace's p_opt, it comes
\* from the fit of that same model on the ydata bound at that point, and its
\* length is that model's parameter count (2 for lin_func, 3 for quad_func);
\* a linear-model use never sees the ydata or p_opt bound by the quadratic
\* cells, and the list compared against holds the parameters that ydata was
\* generated from.
C10_InOrderUses ==
    ordered =>
      /\ err = "none"
      /\ (lastUse.kind = "unpack" /\ lastUse.cell = runs) =>
            /\ lastUse.popt = ns["p_opt"]
            /\ lastUse.ydata = ns["ydata"]
            /\ FitOfOn(lastUse.popt, lastUse.model, lastUse.ydata)
            /\ lastUse.popt.len = lastUse.nparams
            /\ lastUse.model = "lin_func" => lastUse.popt.len = 2
            /\ lastUse.model = "quad_func" => lastUse.popt.len = 3
            /\ lastUse.cell = 6 => lastUse.model = "lin_func"
            /\ lastUse.cell = 9 => lastUse.model = "quad_func"
      /\ (lastUse.kind = "compare" /\ lastUse.cell = runs) =>
            /\ lastUse.popt = ns["p_opt"]
            /\ lastUse.ydata = ns["ydata"]
            /\ FitOfOn(lastUse.popt, "quad_func", lastUse.ydata)
            /\ lastUse.popt.len = 3
            /\ lastUse.truth = <<15, 23, 12>>
            /\ lastUse.ydata.truth = lastUse.truth

\* All ten cells have run in order; the last one compared the quadratic fit.
C10_Witness ==
    /\ ordered
    /\ runs = NumCells
    /\ err = "none"
    /\ lastUse.kind = "compare"
    /\ lastUse.popt.model = "quad_func"
    /\ ns["p_cov"].rows = 3

====
